---- MODULE Spec2Model ----
(***************************************************************************)
(* A model of the OrgoPivy text engine: chunk_text, normalize, score and   *)
(* make_answer of api/app/ingest.py, and search_impl,                      *)
(* looks_like_math_question and ask_impl of api/app/main.py.               *)
(*                                                                         *)
(* A Python str is a sequence of one-character strings.  Indices of the    *)
(* code (0-based, end-exclusive) are kept: Slice(s, a, b) is s[a:b].       *)
(***************************************************************************)
EXTENDS Integers, Sequences, FiniteSets, TLC

VARIABLES
    \* chunk_text
    raw, text, max_chars, overlap_chars, start, end, n, chunks, spans, iters, pc,
    \* score
    squery, schunk, sresult, spc,
    \* make_answer
    aquery, aresults, amax, aout, apc,
    \* search_impl / ask_impl
    index, question, top_k, results, response, branch

chunkVars == <<raw, text, max_chars, overlap_chars, start, end, n, chunks, spans, iters, pc>>
scoreVars == <<squery, schunk, sresult, spc>>
answerVars == <<aquery, aresults, amax, aout, apc>>
askVars == <<index, question, top_k, results, response, branch>>
vars == <<chunkVars, scoreVars, answerVars, askVars>>

-----------------------------------------------------------------------------
(* Bounds of the model. *)

\* longest raw text handed to chunk_text
MaxLen == 6
\* largest max_chars and overlap_chars tried
MaxChars == 5
\* loop iterations of chunk_text that are followed (a loop that makes no
\* progress would go on for ever)
MaxIter == 9

-----------------------------------------------------------------------------
(* Characters and strings. *)

NL == "\n"
CR == "\r"
TAB == "\t"
SP == " "

\* what str.strip() removes and the regex class \s matches
Whitespace == {SP, TAB, NL, CR}

UpperCase == <<"A","B","C","D","E","F","G","H","I","J","K","L","M",
               "N","O","P","Q","R","S","T","U","V","W","X","Y","Z">>
LowerCase == <<"a","b","c","d","e","f","g","h","i","j","k","l","m",
               "n","o","p","q","r","s","t","u","v","w","x","y","z">>
Digits == {"0","1","2","3","4","5","6","7","8","9"}

Min2(a, b) == IF a <= b THEN a ELSE b
Max2(a, b) == IF a >= b THEN a ELSE b

\* s[a:b] for 0 <= a, 0 <= b
Slice(s, a, b) == SubSeq(s, a + 1, Min2(b, Len(s)))

\* s.startswith(sub, i), i 0-based
MatchAt(s, sub, i) ==
    /\ i >= 0
    /\ i + Len(sub) <= Len(s)
    /\ \A j \in 1..Len(sub) : s[i + j] = sub[j]

\* sub in s
Contains(s, sub) == \E i \in 0..(Len(s) - Len(sub)) : MatchAt(s, sub, i)

\* s.find(sub, from) when sub occurs at or after from: the lowest such index
Find(s, sub, from) ==
    CHOOSE i \in from..(Len(s) - Len(sub)) :
        MatchAt(s, sub, i) /\ \A j \in from..(i - 1) : ~MatchAt(s, sub, j)

\* s.rfind(sub): the highest 0-based index where sub occurs, or -1
RFind(s, sub) ==
    LET at == {i \in 0..(Len(s) - Len(sub)) : MatchAt(s, sub, i)}
    IN  IF at = {} THEN -1 ELSE CHOOSE i \in at : \A j \in at : j <= i

\* the first and the last position of s that holds no whitespace
FirstInk(s) ==
    CHOOSE i \in 1..Len(s) : s[i] \notin Whitespace /\ \A j \in 1..(i - 1) : s[j] \in Whitespace

LastInk(s) ==
    CHOOSE i \in 1..Len(s) : s[i] \notin Whitespace /\ \A j \in (i + 1)..Len(s) : s[j] \in Whitespace

Blank(s) == \A i \in 1..Len(s) : s[i] \in Whitespace

\* s.strip()
Strip(s) == IF Blank(s) THEN <<>> ELSE SubSeq(s, FirstInk(s), LastInk(s))

\* the number of whitespace characters s.strip() removes on the left
LeftPad(s) == IF Blank(s) THEN Len(s) ELSE FirstInk(s) - 1

\* str.lower() of one character
LowerChar(c) ==
    IF \E k \in 1..26 : UpperCase[k] = c
    THEN LowerCase[CHOOSE k \in 1..26 : UpperCase[k] = c]
    ELSE c

\* s.lower()
Lower(s) == [i \in 1..Len(s) |-> LowerChar(s[i])]

\* re.sub(r"\s+", " ", s): every maximal run of whitespace becomes one space.
\* The two halves of s are done apart; a run that crosses the middle has left
\* a space on either side, and one of the two is dropped.
RECURSIVE CollapseWS(_)
CollapseWS(s) ==
    IF Len(s) <= 1
    THEN IF s # <<>> /\ s[1] \in Whitespace THEN <<SP>> ELSE s
    ELSE LET h == Len(s) \div 2
             l == CollapseWS(SubSeq(s, 1, h))
             r == CollapseWS(SubSeq(s, h + 1, Len(s)))
         IN  IF s[h] \in Whitespace /\ s[h + 1] \in Whitespace
             THEN l \o Tail(r)
             ELSE l \o r

\* normalize
normalize(s) == Strip(CollapseWS(Lower(s)))

\* text.replace("\r\n", "\n"): from the left, one occurrence after the other
RECURSIVE ReplaceCRLF(_)
ReplaceCRLF(s) ==
    IF ~Contains(s, <<CR, NL>>) THEN s
    ELSE LET i == Find(s, <<CR, NL>>, 0)
         IN  Slice(s, 0, i) \o <<NL>> \o ReplaceCRLF(Slice(s, i + 2, Len(s)))

-----------------------------------------------------------------------------
(* chunk_text *)

\* every sequence over S of length at most k
SeqsUpTo(S, k) == UNION {[1..m -> S] : m \in 0..k}

ChunkAlphabet == {"a", NL, CR}

ParaBreak == <<NL, NL>>

\* lines 20-26: the end of the window that starts at st
WindowEnd(t, st, mc) ==
    LET e0 == Min2(st + mc, Len(t))
        cut == RFind(Slice(t, st, e0), ParaBreak)
    IN  IF e0 < Len(t) /\ cut # -1 /\ 2 * cut > mc THEN st + cut ELSE e0

\* line 35, and a variant of it that sets the cursor one further
AdvancePastEnd(e, oc) == Max2(0, e - oc) + 1

Advance(e, oc) == Max2(0, e - oc)

\* line 29: whether the stripped window is appended, and a variant that
\* appends every window
KeepsAny(chunk) == TRUE

Keeps(chunk) == chunk # <<>>

ChunkInit ==
    /\ raw \in SeqsUpTo(ChunkAlphabet, MaxLen)
    /\ max_chars \in 1..MaxChars
    /\ overlap_chars \in 0..MaxChars
    /\ text = <<>>
    /\ start = 0
    /\ end = 0
    /\ n = 0
    /\ chunks = <<>>
    /\ spans = <<>>
    /\ iters = 0
    /\ pc = "entry"

\* lines 11-17
ChunkEnter ==
    /\ pc = "entry"
    /\ text' = Strip(ReplaceCRLF(raw))
    /\ n' = Len(text')
    /\ pc' = IF text' = <<>> THEN "done" ELSE "loop"
    /\ UNCHANGED <<raw, max_chars, overlap_chars, start, end, chunks, spans, iters>>

\* lines 19-35: the loop's test and one iteration.  spans records, for every
\* chunk appended, the 0-based [lo, hi) it occupies in text; iters counts the
\* iterations.
ChunkIter ==
    /\ pc = "loop"
    /\ iters < MaxIter
    /\ IF start < n
       THEN LET e == WindowEnd(text, start, max_chars)
                w == Slice(text, start, e)
                chunk == Strip(w)
            IN  /\ end' = e
                /\ chunks' = IF Keeps(chunk) THEN Append(chunks, chunk) ELSE chunks
                /\ spans' = IF Keeps(chunk)
                            THEN Append(spans, <<start + LeftPad(w),
                                                 start + LeftPad(w) + Len(chunk)>>)
                            ELSE spans
                /\ iters' = iters + 1
                /\ IF e = n
                   THEN pc' = "done" /\ start' = start
                   ELSE pc' = "loop" /\ start' = Advance(e, overlap_chars)
       ELSE pc' = "done" /\ UNCHANGED <<start, end, chunks, spans, iters>>
    /\ UNCHANGED <<raw, text, max_chars, overlap_chars, n>>

ChunkNext ==
    \/ ChunkEnter /\ UNCHANGED <<scoreVars, answerVars, askVars>>
    \/ ChunkIter /\ UNCHANGED <<scoreVars, answerVars, askVars>>

\* lines 19-35 run to the end, for a text and sizes on which the loop ends
RECURSIVE ChunkLoop(_, _, _, _, _)
ChunkLoop(t, st, mc, oc, acc) ==
    IF ~(st < Len(t)) THEN acc
    ELSE LET e == WindowEnd(t, st, mc)
             chunk == Strip(Slice(t, st, e))
             acc2 == IF Keeps(chunk) THEN Append(acc, chunk) ELSE acc
         IN  IF e = Len(t) THEN acc2
             ELSE ChunkLoop(t, Advance(e, oc), mc, oc, acc2)

\* chunk_text(text, max_chars, overlap_chars)
chunk_text(t, mc, oc) ==
    LET t1 == Strip(ReplaceCRLF(t))
    IN  IF t1 = <<>> THEN <<>> ELSE ChunkLoop(t1, 0, mc, oc, <<>>)

-----------------------------------------------------------------------------
(* score *)

\* s.split(" "): the pieces between single spaces, empty pieces kept
RECURSIVE SplitSpace(_)
SplitSpace(s) ==
    IF ~Contains(s, <<SP>>) THEN <<s>>
    ELSE LET i == Find(s, <<SP>>, 0)
         IN  <<Slice(s, 0, i)>> \o SplitSpace(Slice(s, i + 1, Len(s)))

\* [t for t in pieces if len(t) >= k]
RECURSIVE AtLeast(_, _)
AtLeast(pieces, k) ==
    IF pieces = <<>> THEN <<>>
    ELSE (IF Len(Head(pieces)) >= k THEN <<Head(pieces)>> ELSE <<>>)
         \o AtLeast(Tail(pieces), k)

\* a count of the occurrences of t in c that takes every start position
CountOverlapping(c, t) == Cardinality({i \in 0..(Len(c) - Len(t)) : MatchAt(c, t, i)})

\* c.count(t) for a non-empty t: the leftmost occurrence at or after i
\* counts, and the scan goes on behind it
RECURSIVE CountFrom(_, _, _)
CountFrom(c, t, i) ==
    IF ~\E k \in i..(Len(c) - Len(t)) : MatchAt(c, t, k) THEN 0
    ELSE 1 + CountFrom(c, t, Find(c, t, i) + Len(t))

Count(c, t) == CountFrom(c, t, 0)

RECURSIVE SumCounts(_, _)
SumCounts(c, terms) ==
    IF terms = <<>> THEN 0
    ELSE (IF Len(Head(terms)) < 2 THEN 0 ELSE Count(c, Head(terms)))
         + SumCounts(c, Tail(terms))

\* score(query, chunk)
score(query, chunk) ==
    LET q == normalize(query)
        c == normalize(chunk)
    IN  IF q = <<>> THEN 0
        ELSE SumCounts(c, AtLeast(SplitSpace(q), 1))

\* longest query and chunk handed to score
MaxQueryLen == 5
MaxChunkLen == 4

ScoreAlphabet == {"a", "A", SP}

ScoreInit ==
    /\ squery \in SeqsUpTo(ScoreAlphabet, MaxQueryLen)
    /\ schunk \in SeqsUpTo(ScoreAlphabet, MaxChunkLen)
    /\ sresult = 0
    /\ spc = "call"

ScoreCall ==
    /\ spc = "call"
    /\ sresult' = score(squery, schunk)
    /\ spc' = "done"
    /\ UNCHANGED <<squery, schunk>>

ScoreNext == ScoreCall /\ UNCHANGED <<chunkVars, answerVars, askVars>>

-----------------------------------------------------------------------------
(* make_answer *)

NoAnswerMsg ==
    <<
    "N","o"," ","a","n","s","w","e","r"," ","f","o","u","n",
    "d"," ","i","n"," ","y","o","u","r"," ","u","p","l","o",
    "a","d","e","d"," ","m","a","t","e","r","i","a","l","s",
    " ","y","e","t"
    >>

SentenceEnd == {".", "!", "?"}

\* line 65
MinSentenceLen == 25
\* line 77
TopLen == 600

\* whether re.split's pattern (?<=[\.\!\?])\s+|\n+ matches at p (1-based)
SepAt(s, p) ==
    \/ p > 1 /\ s[p - 1] \in SentenceEnd /\ s[p] \in Whitespace
    \/ s[p] = NL

\* the last position of the match that starts at p: \s+ and \n+ are greedy,
\* and the first alternative is tried first
SepEnd(s, p) ==
    LET cls == IF p > 1 /\ s[p - 1] \in SentenceEnd /\ s[p] \in Whitespace
               THEN Whitespace ELSE {NL}
    IN  IF \A j \in p..Len(s) : s[j] \in cls THEN Len(s)
        ELSE (CHOOSE j \in p..Len(s) :
                 s[j] \notin cls /\ \A k \in p..(j - 1) : s[k] \in cls) - 1

\* re.split(r"(?<=[\.\!\?])\s+|\n+", s), from position from on
RECURSIVE SentSplitFrom(_, _)
SentSplitFrom(s, from) ==
    IF ~\E p \in from..Len(s) : SepAt(s, p) THEN <<SubSeq(s, from, Len(s))>>
    ELSE LET p == CHOOSE x \in from..Len(s) :
                      SepAt(s, x) /\ \A y \in from..(x - 1) : ~SepAt(s, y)
         IN  <<SubSeq(s, from, p - 1)>> \o SentSplitFrom(s, SepEnd(s, p) + 1)

SentSplit(s) == SentSplitFrom(s, 1)

\* line 58
QueryTerms(q) == AtLeast(SplitSpace(q), 2)

\* lines 68-71: one for every entry of terms that occurs in c
Hits(c, terms) == Cardinality({k \in 1..Len(terms) : Contains(c, terms[k])})

\* lines 63-73 for one result's text
RECURSIVE Candidates(_, _)
Candidates(pieces, terms) ==
    IF pieces = <<>> THEN <<>>
    ELSE LET s == Strip(Head(pieces))
             rest == Candidates(Tail(pieces), terms)
         IN  IF Len(s) < MinSentenceLen THEN rest
             ELSE LET hit == Hits(normalize(s), terms)
                  IN  IF hit > 0 THEN <<[hit |-> hit, s |-> s]>> \o rest ELSE rest

\* lines 60-73
RECURSIVE AllCandidates(_, _)
AllCandidates(rs, terms) ==
    IF rs = <<>> THEN <<>>
    ELSE Candidates(SentSplit(Head(rs).text), terms) \o AllCandidates(Tail(rs), terms)

\* line 79: list.sort(key = hit, reverse = True) is stable
RECURSIVE InsertDesc(_, _)
InsertDesc(sorted, x) ==
    IF sorted = <<>> THEN <<x>>
    ELSE IF Head(sorted).hit >= x.hit THEN <<Head(sorted)>> \o InsertDesc(Tail(sorted), x)
         ELSE <<x>> \o sorted

RECURSIVE SortDesc(_)
SortDesc(seq) ==
    IF seq = <<>> THEN <<>>
    ELSE InsertDesc(SortDesc(SubSeq(seq, 1, Len(seq) - 1)), seq[Len(seq)])

\* line 89
PickStop(picked, ms) == Len(picked) >= ms

\* lines 83-90
RECURSIVE PickLoop(_, _, _, _)
PickLoop(sents, picked, seen, ms) ==
    IF sents = <<>> THEN picked
    ELSE LET key == normalize(Head(sents).s)
         IN  IF key \in seen THEN PickLoop(Tail(sents), picked, seen, ms)
             ELSE LET picked2 == Append(picked, Head(sents).s)
                  IN  IF PickStop(picked2, ms) THEN picked2
                      ELSE PickLoop(Tail(sents), picked2, seen \cup {key}, ms)

\* " ".join(parts)
RECURSIVE Join(_)
Join(parts) ==
    IF parts = <<>> THEN <<>>
    ELSE IF Len(parts) = 1 THEN parts[1]
         ELSE parts[1] \o <<SP>> \o Join(Tail(parts))

\* lines 76-77, and a variant that takes the last result
TopOfLast(rs) == Slice(Strip(rs[Len(rs)].text), 0, TopLen)

TopOf(rs) == Slice(Strip(rs[1].text), 0, TopLen)

\* make_answer(query, results, max_sentences): the answer, with the list
\* sentences as sorted, the list picked and the return statement taken
make_answer(query, rs, ms) ==
    LET q == normalize(query)
    IN  IF q = <<>> \/ rs = <<>>
        THEN [answer |-> NoAnswerMsg, sentences |-> <<>>, picked |-> <<>>, ret |-> "none"]
        ELSE LET sentences == AllCandidates(rs, QueryTerms(q))
             IN  IF sentences = <<>>
                 THEN [answer |-> TopOf(rs), sentences |-> <<>>, picked |-> <<>>, ret |-> "top"]
                 ELSE LET sorted == SortDesc(sentences)
                          picked == PickLoop(sorted, <<>>, {}, ms)
                      IN  [answer |-> Join(picked), sentences |-> sorted,
                           picked |-> picked, ret |-> "picked"]


\* results lists handed to make_answer hold at most MaxResults results
MaxResults == 2
\* largest max_sentences tried
MaxSentences == 3

Fill(k) == [i \in 1..k |-> "x"]
wAB == <<"a", "b">>
wCD == <<"c", "d">>

\* "ab xxxxxxxxxxxxxxxxxxxxxx." (26 characters)
SentOne == wAB \o <<SP>> \o Fill(22) \o <<".">>
\* the same sentence in another case and spacing
SentOneDup == <<"A", "B", SP, SP>> \o Fill(22) \o <<".">>
\* "ab cd xxxxxxxxxxxxxxxxxxxx!"
SentTwo == wAB \o <<SP>> \o wCD \o <<SP>> \o Fill(20) \o <<"!">>
\* "ab ab xxxxxxxxxxxxxxxxxxx?"
SentRep == wAB \o <<SP>> \o wAB \o <<SP>> \o Fill(19) \o <<"?">>
\* "cd xxxxxxxxxxxxxxxxxxxxxx": exactly MinSentenceLen characters
SentCD == wCD \o <<SP>> \o Fill(22)
\* "ab xxxxxxxxxxxxxxxxxxxxx": one character short
SentShort == wAB \o <<SP>> \o Fill(21)

TextA == SentOne \o <<SP>> \o SentTwo \o <<SP, NL>> \o SentCD
TextB == SentOneDup \o <<NL>> \o SentRep \o <<NL, NL>> \o SentShort
TextBlank == <<SP, NL>>
TextPad == <<SP>> \o Fill(25) \o <<NL>>
\* 31 lines of 19 characters: 620 characters, none of its lines a sentence
TextLong == [i \in 1..620 |-> IF i % 20 = 0 THEN NL ELSE "x"]

AnswerTexts == {TextA, TextB, SentShort, TextBlank, TextPad, TextLong}

AnswerQueries ==
    { <<>>, <<SP>>, <<"a", SP, "b">>, wAB, wAB \o <<SP>> \o wAB,
      <<"A", "B", SP, SP>> \o wCD, <<"x", "x">> }

NoOutput == [answer |-> <<>>, sentences |-> <<>>, picked |-> <<>>, ret |-> "none"]

AnswerInit ==
    /\ aquery \in AnswerQueries
    /\ aresults \in SeqsUpTo({[text |-> t] : t \in AnswerTexts}, MaxResults)
    /\ amax \in 0..MaxSentences
    /\ aout = NoOutput
    /\ apc = "call"

AnswerCall ==
    /\ apc = "call"
    /\ aout' = make_answer(aquery, aresults, amax)
    /\ apc' = "done"
    /\ UNCHANGED <<aquery, aresults, amax>>

AnswerNext == AnswerCall /\ UNCHANGED <<chunkVars, scoreVars, askVars>>

-----------------------------------------------------------------------------
(* search_impl, looks_like_math_question, ask_impl *)

GuidanceMsg ==
    <<
    "T","h","i","s"," ","l","o","o","k","s"," ","l","i","k",
    "e"," ","a"," ","c","a","l","c","u","l","a","t","i","o",
    "n"," ","q","u","e","s","t","i","o","n","."," ","O","r",
    "g","o","P","i","v","y"," ","a","n","s","w","e","r","s",
    " ","f","r","o","m"," ","i","n","g","e","s","t","e","d",
    " ","n","o","t","e","s","."," ","A","d","d"," ","a"," ",
    "c","h","e","m","i","s","t","r","y"," ","f","o","r","m",
    "u","l","a","s"," ","n","o","t","e","s"," ","f","i","l",
    "e"," ","a","n","d"," ","i","n","g","e","s","t"," ","i",
    "t",","," ","o","r"," ","b","u","i","l","d"," ","a"," ",
    "c","a","l","c","u","l","a","t","o","r"," ","e","n","d",
    "p","o","i","n","t"," ","f","o","r"," ","t","h","e","s",
    "e","."
    >>

\* ingest.py line 10: the sizes ingest_upload leaves at their defaults
DefaultMaxChars == 900
DefaultOverlap == 120
\* main.py line 152
AnswerSentences == 5
\* main.py line 162
SnippetLen == 220

\* [{"id": i, "text": ch} for i, ch in enumerate(chunks)]
Enumerate(cs) == [i \in 1..Len(cs) |-> [id |-> i - 1, text |-> cs[i]]]

\* lines 100-110 for one index file, and a variant that keeps the chunks
\* that score 0 too
RECURSIVE FileHitsAny(_, _, _)
FileHitsAny(q, name, cs) ==
    IF cs = <<>> THEN <<>>
    ELSE LET s == score(q, Head(cs).text)
             rest == FileHitsAny(q, name, Tail(cs))
         IN  IF s >= 0
             THEN <<[stored_filename |-> name, chunk_id |-> Head(cs).id,
                     score |-> s, text |-> Head(cs).text]>> \o rest
             ELSE rest

RECURSIVE FileHits(_, _, _)
FileHits(q, name, cs) ==
    IF cs = <<>> THEN <<>>
    ELSE LET s == score(q, Head(cs).text)
             rest == FileHits(q, name, Tail(cs))
         IN  IF s > 0
             THEN <<[stored_filename |-> name, chunk_id |-> Head(cs).id,
                     score |-> s, text |-> Head(cs).text]>> \o rest
             ELSE rest

\* lines 96-110
RECURSIVE AllHits(_, _)
AllHits(q, idx) ==
    IF idx = <<>> THEN <<>>
    ELSE FileHits(q, Head(idx).stored_filename, Head(idx).chunks) \o AllHits(q, Tail(idx))

\* line 112: results.sort(key = score, reverse = True) is stable
RECURSIVE InsertByScore(_, _)
InsertByScore(sorted, x) ==
    IF sorted = <<>> THEN <<x>>
    ELSE IF Head(sorted).score >= x.score
         THEN <<Head(sorted)>> \o InsertByScore(Tail(sorted), x)
         ELSE <<x>> \o sorted

RECURSIVE SortByScore(_)
SortByScore(seq) ==
    IF seq = <<>> THEN <<>>
    ELSE InsertByScore(SortByScore(SubSeq(seq, 1, Len(seq) - 1)), seq[Len(seq)])

\* s[:k], for a k of either sign
Prefix(s, k) == IF k >= 0 THEN SubSeq(s, 1, Min2(k, Len(s))) ELSE SubSeq(s, 1, Len(s) + k)

\* search_impl(q, k)["results"]
search_impl(idx, q, k) ==
    IF Strip(q) = <<>> THEN <<>>
    ELSE Prefix(SortByScore(AllHits(q, idx)), k)

\* what the regex class \w matches
WordChars == {LowerCase[k] : k \in 1..26} \cup {UpperCase[k] : k \in 1..26} \cup Digits \cup {"_"}

\* \b before position i and after position j of s (1-based)
BoundaryBefore(s, i) == (i = 1 \/ s[i - 1] \notin WordChars) /\ s[i] \in WordChars
BoundaryAfter(s, j) == (j = Len(s) \/ s[j + 1] \notin WordChars) /\ s[j] \in WordChars

AllDigits(s, i, j) == i <= j /\ \A k \in i..j : s[k] \in Digits

\* re.search(r"\b\d+(\.\d+)?\b", s)
HasNumber(s) ==
    \E i \in 1..Len(s) : \E j \in i..Len(s) :
        /\ BoundaryBefore(s, i)
        /\ AllDigits(s, i, j)
        /\ \/ BoundaryAfter(s, j)
           \/ \E m \in (j + 2)..Len(s) :
                 s[j + 1] = "." /\ AllDigits(s, j + 2, m) /\ BoundaryAfter(s, m)

\* looks_like_math_question
looks_like_math_question(q) ==
    LET s == Lower(q)
    IN  \/ Contains(s, <<"m","o","l","e">>)
        \/ Contains(s, <<"m","o","l","e","s">>)
        \/ Contains(s, <<"g","r","a","m","s">>)
        \/ Contains(<<SP>> \o s \o <<SP>>, <<SP, "g", SP>>)
        \/ HasNumber(s)

\* lines 139-144: top_score as an integer
TopScore(rs) == IF rs # <<>> THEN rs[1].score ELSE 0

\* line 146: top_score < 0.2
BelowThreshold(ts) == 10 * ts < 2

\* snippet = r["text"].strip().replace("\n", " ")[:220]
Snippet(t) ==
    LET s == Strip(t)
    IN  Slice([i \in 1..Len(s) |-> IF s[i] = NL THEN SP ELSE s[i]], 0, SnippetLen)

\* lines 154-164
Contexts(rs) ==
    [i \in 1..Len(rs) |->
        [stored_filename |-> rs[i].stored_filename, chunk_id |-> rs[i].chunk_id,
         score |-> rs[i].score, snippet |-> Snippet(rs[i].text)]]

\* ask_impl(question, top_k): the results of the search, the response and
\* the return statement taken
ask_impl(idx, q, k) ==
    IF Strip(q) = <<>>
    THEN [results |-> <<>>, response |-> [answer |-> <<>>, contexts |-> <<>>], ret |-> "blank"]
    ELSE LET rs == search_impl(idx, q, k)
         IN  IF looks_like_math_question(q) /\ (rs = <<>> \/ BelowThreshold(TopScore(rs)))
             THEN [results |-> rs, response |-> [answer |-> GuidanceMsg, contexts |-> <<>>],
                   ret |-> "guidance"]
             ELSE [results |-> rs,
                   response |-> [answer |-> make_answer(q, rs, AnswerSentences).answer,
                                 contexts |-> Contexts(rs)],
                   ret |-> "answer"]

\* index files kept at most
MaxFiles == 2

TextNum == <<"5", SP>> \o wAB \o <<SP, "g">>

UploadTexts == {TextA, TextB, SentShort, TextBlank, TextNum}

Questions ==
    { <<>>, <<SP>>, wAB, <<"z", "z">>, <<"5", SP>> \o wAB, <<"5", SP, "g">>,
      wAB \o <<"5">>, <<"m","o","l","e">>, <<"1", ".", "5">>, <<"a", SP, "G">>,
      wCD \o <<SP>> \o wAB }

TopKs == {-1, 0, 1, 5}

AskInit ==
    /\ index = <<>>
    /\ question = <<>>
    /\ top_k = 0
    /\ results = <<>>
    /\ response = [answer |-> <<>>, contexts |-> <<>>]
    /\ branch = "none"

\* ingest_upload (main.py lines 70-89) of a newly uploaded file
ingest_upload(t) ==
    /\ branch = "none"
    /\ Len(index) < MaxFiles
    /\ index' = Append(index,
                  [stored_filename |-> Len(index) + 1,
                   chunks |-> Enumerate(chunk_text(t, DefaultMaxChars, DefaultOverlap))])
    /\ UNCHANGED <<question, top_k, results, response, branch>>

\* ask_get / ask_post.  ask_impl changes nothing the server keeps, so one
\* call, after any number of ingests, reaches every response there is.
Ask(q, k) ==
    /\ branch = "none"
    /\ question' = q
    /\ top_k' = k
    /\ LET r == ask_impl(index, q, k)
       IN  results' = r.results /\ response' = r.response /\ branch' = r.ret
    /\ UNCHANGED index

AskNext ==
    \/ \E t \in UploadTexts : ingest_upload(t) /\ UNCHANGED <<chunkVars, scoreVars, answerVars>>
    \/ \E q \in Questions, k \in TopKs : Ask(q, k) /\ UNCHANGED <<chunkVars, scoreVars, answerVars>>

-----------------------------------------------------------------------------
(* The specifications. *)

\* The four parts are run apart: each specification starts one of them and
\* leaves the variables of the others at rest.
InitChunk ==
    /\ ChunkInit
    /\ squery = <<>> /\ schunk = <<>> /\ sresult = 0 /\ spc = "idle"
    /\ aquery = <<>> /\ aresults = <<>> /\ amax = 0 /\ aout = NoOutput /\ apc = "idle"
    /\ index = <<>> /\ question = <<>> /\ top_k = 0 /\ results = <<>>
    /\ response = [answer |-> <<>>, contexts |-> <<>>] /\ branch = "idle"

InitScore ==
    /\ ScoreInit
    /\ raw = <<>> /\ text = <<>> /\ max_chars = 0 /\ overlap_chars = 0
    /\ start = 0 /\ end = 0 /\ n = 0 /\ chunks = <<>> /\ spans = <<>>
    /\ iters = 0 /\ pc = "idle"
    /\ aquery = <<>> /\ aresults = <<>> /\ amax = 0 /\ aout = NoOutput /\ apc = "idle"
    /\ index = <<>> /\ question = <<>> /\ top_k = 0 /\ results = <<>>
    /\ response = [answer |-> <<>>, contexts |-> <<>>] /\ branch = "idle"

InitAnswer ==
    /\ AnswerInit
    /\ raw = <<>> /\ text = <<>> /\ max_chars = 0 /\ overlap_chars = 0
    /\ start = 0 /\ end = 0 /\ n = 0 /\ chunks = <<>> /\ spans = <<>>
    /\ iters = 0 /\ pc = "idle"
    /\ squery = <<>> /\ schunk = <<>> /\ sresult = 0 /\ spc = "idle"
    /\ index = <<>> /\ question = <<>> /\ top_k = 0 /\ results = <<>>
    /\ response = [answer |-> <<>>, contexts |-> <<>>] /\ branch = "idle"

InitAsk ==
    /\ AskInit
    /\ raw = <<>> /\ text = <<>> /\ max_chars = 0 /\ overlap_chars = 0
    /\ start = 0 /\ end = 0 /\ n = 0 /\ chunks = <<>> /\ spans = <<>>
    /\ iters = 0 /\ pc = "idle"
    /\ squery = <<>> /\ schunk = <<>> /\ sresult = 0 /\ spc = "idle"
    /\ aquery = <<>> /\ aresults = <<>> /\ amax = 0 /\ aout = NoOutput /\ apc = "idle"

SpecChunk == InitChunk /\ [][ChunkNext]_vars
SpecScore == InitScore /\ [][ScoreNext]_vars
SpecAnswer == InitAnswer /\ [][AnswerNext]_vars
SpecAsk == InitAsk /\ [][AskNext]_vars

-----------------------------------------------------------------------------
(* chunk_text: the claims. *)

ValidSizes == 0 <= overlap_chars /\ overlap_chars < max_chars

\* position i (0-based) of text lies in the text of a chunk
Covered(i) == \E k \in 1..Len(spans) : spans[k][1] <= i /\ i < spans[k][2]

\* C1: with 0 <= overlap_chars < max_chars the loop runs at most
\* ceil(n / (max_chars - overlap_chars)) iterations, paragraph breaks included.
C1_IterationBound ==
    (pc \in {"loop", "done"} /\ ValidSizes)
        => (iters - 1) * (max_chars - overlap_chars) < n

\* C2: for every max_chars and overlap_chars, an iteration that does not
\* stop leaves start strictly greater than it found it.
C2_Progress ==
    [][(pc = "loop" /\ pc' = "loop") => start' > start]_vars

\* C3, as claimed: for a non-empty text and 0 <= overlap_chars < max_chars,
\* every position of the normalized text lies in the text of a returned chunk.
C3_EveryCharCovered ==
    (pc = "done" /\ ValidSizes /\ text # <<>>)
        => \A i \in 0..(n - 1) : Covered(i)

\* C3, amended: for a non-empty text and 0 <= overlap_chars < max_chars, after
\* every iteration every position below the window's end that holds no
\* whitespace lies in the text of an appended chunk, and the loop ends only
\* with the window's end at n: every non-whitespace character of the
\* normalized text is in a returned chunk.
C3_InkCovered ==
    (pc \in {"loop", "done"} /\ ValidSizes /\ text # <<>>)
        => /\ Len(spans) = Len(chunks)
           /\ \A k \in 1..Len(chunks) : chunks[k] = Slice(text, spans[k][1], spans[k][2])
           /\ \A i \in 0..(end - 1) : text[i + 1] \notin Whitespace => Covered(i)
           /\ pc = "done" => end = n

\* a text cut at a paragraph break (the second window starts before
\* max_chars - overlap_chars), returned with a whitespace position in no chunk
C3_Witness ==
    /\ pc = "done" /\ ValidSizes
    /\ iters = 2 /\ 0 < start /\ start < max_chars - overlap_chars
    /\ MatchAt(text, ParaBreak, start + overlap_chars)
    /\ \E i \in 0..(n - 1) : ~Covered(i)

\* C4: every chunk appended, at every point of the loop and for all sizes, is
\* non-empty and neither starts nor ends with whitespace; an empty or
\* whitespace-only input yields no chunk.
C4_ChunksTrimmed ==
    /\ \A k \in 1..Len(chunks) :
          /\ chunks[k] # <<>>
          /\ chunks[k][1] \notin Whitespace
          /\ chunks[k][Len(chunks[k])] \notin Whitespace
    /\ (pc = "done" /\ Blank(raw)) => chunks = <<>>

\* in the loop, after a window of whitespace only was passed over and a
\* window that ended in whitespace was appended without it
C4_Witness ==
    /\ pc = "loop"
    /\ chunks # <<>>
    /\ iters > Len(chunks)
    /\ \E k \in 1..Len(spans) : spans[k][2] < n /\ text[spans[k][2] + 1] \in Whitespace

-----------------------------------------------------------------------------
(* score: the claims. *)

\* the sum of the values of a function with a finite domain
RECURSIVE SumOf(_)
SumOf(f) ==
    IF DOMAIN f = {} THEN 0
    ELSE LET x == CHOOSE y \in DOMAIN f : TRUE
         IN  f[x] + SumOf([y \in DOMAIN f \ {x} |-> f[y]])

\* the terms of a raw query, each where it stands: the maximal runs without
\* whitespace that are at least two characters long
TermRuns(q) ==
    {r \in (1..Len(q)) \X (1..Len(q)) :
        /\ r[1] < r[2]
        /\ \A i \in r[1]..r[2] : q[i] \notin Whitespace
        /\ r[1] = 1 \/ q[r[1] - 1] \in Whitespace
        /\ r[2] = Len(q) \/ q[r[2] + 1] \in Whitespace}

TermAt(q, r) == Lower(SubSeq(q, r[1], r[2]))

Occurrences(c, t) == {i \in 0..(Len(c) - Len(t)) : MatchAt(c, t, i)}

\* the most occurrences of t in c of which no two overlap
MaxDisjoint(c, t) ==
    LET packs == {D \in SUBSET Occurrences(c, t) :
                     \A i, j \in D : i < j => i + Len(t) <= j}
    IN  CHOOSE m \in 0..Len(c) :
            /\ \E D \in packs : Cardinality(D) = m
            /\ \A D \in packs : Cardinality(D) <= m

-----------------------------------------------------------------------------
(* make_answer: the claims. *)

\* the query terms of length >= 2, as a set
TermSet(query) == {TermAt(query, r) : r \in TermRuns(query)}

\* the pieces the results' texts are split into, trimmed
PiecesOf(t) == LET ps == SentSplit(t) IN {Strip(ps[j]) : j \in 1..Len(ps)}

AllPieces(rs) == UNION {PiecesOf(rs[i].text) : i \in 1..Len(rs)}

\* those of them that are long enough to be sentences
LongSentences(rs) == {s \in AllPieces(rs) : Len(s) >= MinSentenceLen}

NoSentenceHasTerm(query, rs) ==
    \A s \in LongSentences(rs) : \A t \in TermSet(query) : ~Contains(normalize(s), t)

\* C6: make_answer returns the literal whenever the query has no term of
\* length >= 2, whatever the results, and whenever there are no results.
C6_NoTermFallback ==
    (apc = "done" /\ (TermSet(aquery) = {} \/ aresults = <<>>))
        => aout.answer = NoAnswerMsg

C8_HitsAreDistinctTerms ==
    apc = "done" =>
        \A k \in 1..Len(aout.sentences) :
            aout.sentences[k].hit =
                Cardinality({t \in TermSet(aquery) :
                                Contains(normalize(aout.sentences[k].s), t)})

\* C9: when candidate sentences exist, at most max_sentences sentences are
\* collected, for every max_sentences >= 0, and no two of them have the same
\* normalized text.
C9_AtMostMaxSentences ==
    (apc = "done" /\ aout.ret = "picked")
        => /\ Len(aout.picked) <= amax
           /\ \A i, j \in 1..Len(aout.picked) :
                 i # j => normalize(aout.picked[i]) # normalize(aout.picked[j])

-----------------------------------------------------------------------------
(* ask_impl: the claims. *)

\* C10: search_impl returns only results with a score > 0, so with results
\* the top score is never below 0.2: the guidance message is returned exactly
\* when the non-blank question looks quantitative and the search returned
\* nothing, and with a result the answer is make_answer's.
C10_GuidanceOnlyWithoutResults ==
    branch # "none" =>
        /\ \A i \in 1..Len(results) : results[i].score > 0
        /\ results # <<>> => ~BelowThreshold(TopScore(results))
        /\ branch = "guidance"
              <=> (~Blank(question) /\ looks_like_math_question(question) /\ results = <<>>)
        /\ response.answer = GuidanceMsg <=> branch = "guidance"
        /\ results # <<>> =>
              /\ branch = "answer"
              /\ response.answer = make_answer(question, results, AnswerSentences).answer

\* a question that looks quantitative, answered from results
C10_Witness ==
    /\ branch = "answer"
    /\ looks_like_math_question(question)
    /\ Len(results) >= 2
    /\ results[1].score > results[2].score


====
